---- MODULE Spec2Model ----
(***************************************************************************)
(* A model of asmlib/call.py: get_gt, val_per_hap, filter_by_tig_tree and  *)
(* merge_haplotypes.                                                       *)
(*                                                                         *)
(* Text values are sequences of tokens (a label, an identifier, a digit or *)
(* a delimiter is one token), so that str.split and str.join are computed. *)
(* An interval tree is the set of its intervals [begin, end), a            *)
(* collections.defaultdict is a function whose domain is the set of keys   *)
(* present, and a DataFrame is its column names in order with its rows in  *)
(* order, each row a function from column name to value.                   *)
(***************************************************************************)
EXTENDS Integers, Sequences, FiniteSets, TLC

VARIABLES
    \* ---- one call of get_gt
    gt_pc, gt_row, gt_hap, gt_tree0, gt_tree, gt_ret,
    \* ---- one call of filter_by_tig_tree
    f_pc, f_df, f_tree, f_out, f_err,
    \* ---- one call of merge_haplotypes
    pc, is_inv, h1_file, h2_file, h1_callable, h2_callable,
    merged, df, df_h1, df_h2, map_tree_h1, map_tree_h2,
    ret, err, merge_invoked, loaded, gt_calls

gt_vars == <<gt_pc, gt_row, gt_hap, gt_tree0, gt_tree, gt_ret>>
f_vars == <<f_pc, f_df, f_tree, f_out, f_err>>
m_vars == <<pc, is_inv, h1_file, h2_file, h1_callable, h2_callable,
            merged, df, df_h1, df_h2, map_tree_h1, map_tree_h2,
            ret, err, merge_invoked, loaded, gt_calls>>
vars == <<gt_vars, f_vars, m_vars>>

(***************************************************************************)
(* Bounds                                                                  *)
(***************************************************************************)
\* Coordinates of records and callable regions in the get_gt check: 0..MaxPos
MaxPos == 3
\* Rows of a callable-region table in the get_gt check
MaxRegions == 2
\* Records of the call set given to filter_by_tig_tree
MaxFilterRows == 2
\* Intervals of the exclusion index given to filter_by_tig_tree
MaxExclusions == 2
\* Records the external merge returns
MaxRows == 2

(***************************************************************************)
(* Python and pandas values                                                *)
(***************************************************************************)
\* numpy.nan in a cell
NaN == <<"NaN">>

Range(s) == {s[i] : i \in 1..Len(s)}

Min(a, b) == IF a <= b THEN a ELSE b

\* str.split(d): the segments between the delimiters, never an empty list
RECURSIVE split(_, _)
split(s, d) ==
    IF \A i \in 1..Len(s) : s[i] # d
    THEN <<s>>
    ELSE LET k == CHOOSE i \in 1..Len(s) :
                      s[i] = d /\ \A j \in 1..(i - 1) : s[j] # d
         IN <<SubSeq(s, 1, k - 1)>> \o split(SubSeq(s, k + 1, Len(s)), d)

\* d.join(parts)
RECURSIVE join(_, _)
join(d, parts) ==
    IF parts = <<>> THEN <<>>
    ELSE IF Len(parts) = 1 THEN parts[1]
    ELSE parts[1] \o <<d>> \o join(d, Tail(parts))

\* zip(a, b): pairs up to the shorter of the two
zip(a, b) == [i \in 1..Min(Len(a), Len(b)) |-> <<a[i], b[i]>>]

(***************************************************************************)
(* intervaltree.IntervalTree in a collections.defaultdict                  *)
(***************************************************************************)
Interval(b, e) == [begin |-> b, end |-> e]

\* defaultdict.__getitem__: a missing key is inserted with an empty tree
default_get(map, key) ==
    IF key \in DOMAIN map
    THEN [value |-> map[key], map |-> map]
    ELSE [value |-> {}, map |-> map @@ (key :> {})]

\* tree[begin:end] = True (IntervalTree.addi): a null interval is refused
tree_add(map, key, b, e) ==
    LET g == default_get(map, key)
    IN IF b >= e
       THEN [ok |-> FALSE, map |-> g.map]
       ELSE [ok |-> TRUE,
             map |-> [g.map EXCEPT ![key] = g.value \cup {Interval(b, e)}]]

\* IntervalTree.overlap(begin, end), also tree[begin:end]: nothing for an empty
\* tree or an empty range; else the intervals holding the point begin and those
\* holding a boundary of the tree that lies in [begin, end)
overlap(tree, b, e) ==
    IF tree = {} THEN {}
    ELSE IF b >= e THEN {}
    ELSE LET boundaries == {iv.begin : iv \in tree} \cup {iv.end : iv \in tree}
             points == {p \in boundaries : b <= p /\ p < e}
         IN {iv \in tree : iv.begin <= b /\ b < iv.end}
            \cup {iv \in tree : \E p \in points : iv.begin <= p /\ p < iv.end}

(***************************************************************************)
(* Column names: a name is its tokens, the prefix MERGE_ or HAP_ first     *)
(***************************************************************************)
cID == <<"ID">>
cCHROM == <<"#CHROM">>
cPOS == <<"POS">>
cEND == <<"END">>
cSVTYPE == <<"SVTYPE">>
cHAP == <<"HAP">>
cHAP_VARIANTS == <<"HAP_", "VARIANTS">>
cTIG_REGION == <<"TIG_REGION">>
cGT == <<"GT">>
cGT_H1 == <<"GT_H1">>
cGT_H2 == <<"GT_H2">>

h1 == <<"h1">>
h2 == <<"h2">>

(***************************************************************************)
(* get_gt                                                                  *)
(***************************************************************************)
get_gt_split_comma(row, hap, map_tree) ==
    IF hap \in Range(split(row[cHAP], ","))
    THEN [ret |-> "1", map_tree |-> map_tree]
    ELSE LET g == default_get(map_tree, row[cCHROM])
             hit == \E interval \in overlap(g.value, row[cPOS], row[cEND]) :
                        interval.begin <= row[cPOS] /\ interval.end >= row[cEND]
         IN [ret |-> IF hit THEN "0" ELSE ".", map_tree |-> g.map]

\* The genotype of one record for one haplotype, with the index as the call
\* leaves it
get_gt(row, hap, map_tree) ==
    IF hap \in Range(split(row[cHAP], ";"))
    THEN [ret |-> "1", map_tree |-> map_tree]
    ELSE LET g == default_get(map_tree, row[cCHROM])
             hit == \E interval \in overlap(g.value, row[cPOS], row[cEND]) :
                        interval.begin <= row[cPOS] /\ interval.end >= row[cEND]
         IN [ret |-> IF hit THEN "0" ELSE ".", map_tree |-> g.map]

\* for index, row in df_map.iterrows(): map_tree[row['#CHROM']][row['POS']:row['END']] = True
RECURSIVE build_map_tree(_, _)
build_map_tree(table, map) ==
    IF table = <<>> THEN [ok |-> TRUE, map |-> map]
    ELSE LET a == tree_add(map, table[1].chrom, table[1].pos, table[1].end)
         IN IF ~a.ok THEN a ELSE build_map_tree(Tail(table), a.map)

EmptyMap == <<>>

\* The intervals an index holds for a key, the index left alone
stored(map, key) == IF key \in DOMAIN map THEN map[key] ELSE {}

RECURSIVE SetToSeq(_)
SetToSeq(S) ==
    IF S = {} THEN <<>>
    ELSE LET x == CHOOSE y \in S : TRUE IN <<x>> \o SetToSeq(S \ {x})

\* A cell-keyed row from its columns and values
RowOf(cols, vals) == [c \in Range(cols) |-> vals[CHOOSE i \in 1..Len(cols) : cols[i] = c]]

(***************************************************************************)
(* One call of get_gt on an index built the way merge_haplotypes builds it *)
(***************************************************************************)
Chroms == {<<"chr1">>, <<"chr2">>}

LabelLists == {<<h1>>, <<h2>>, <<h1, h2>>, <<h2, h1>>}

GtRegions == {[chrom |-> c, pos |-> b, end |-> e] :
                 c \in Chroms, b \in 0..MaxPos, e \in 0..MaxPos}

GtTables == {SetToSeq(S) : S \in {T \in SUBSET {r \in GtRegions : r.pos < r.end} :
                                     Cardinality(T) <= MaxRegions}}

GtRows == {RowOf(<<cHAP, cCHROM, cPOS, cEND>>, <<join(";", l), c, p, e>>) :
              l \in LabelLists, c \in Chroms,
              p \in 0..MaxPos, e \in 0..MaxPos}

GtStart ==
    /\ gt_pc = "call"
    /\ gt_row \in {r \in GtRows : r[cPOS] <= r[cEND]}
    /\ gt_hap \in {h1, h2}
    /\ gt_tree0 \in {build_map_tree(t, EmptyMap).map : t \in GtTables}
    /\ gt_tree = gt_tree0
    /\ gt_ret = "None"

GetGt ==
    /\ gt_pc = "call"
    /\ LET r == get_gt(gt_row, gt_hap, gt_tree)
       IN /\ gt_ret' = r.ret
          /\ gt_tree' = r.map_tree
    /\ gt_pc' = "done"
    /\ UNCHANGED <<gt_row, gt_hap, gt_tree0>>
    /\ UNCHANGED <<f_vars, m_vars>>

(***************************************************************************)
(* filter_by_tig_tree                                                      *)
(***************************************************************************)
NoErr == "none"

Digits == {"0", "1", "2", "3", "4", "5", "6", "7", "8", "9"}

DigitVal(t) ==
    CASE t = "0" -> 0 [] t = "1" -> 1 [] t = "2" -> 2 [] t = "3" -> 3
      [] t = "4" -> 4 [] t = "5" -> 5 [] t = "6" -> 6 [] t = "7" -> 7
      [] t = "8" -> 8 [] t = "9" -> 9

\* int(text) of a run of decimal digits
RECURSIVE int(_)
int(s) == IF s = <<>> THEN 0 ELSE 10 * int(SubSeq(s, 1, Len(s) - 1)) + DigitVal(s[Len(s)])

IsDigits(s) == Len(s) >= 1 /\ \A i \in 1..Len(s) : s[i] \in Digits

NoMatch == [matched |-> FALSE, groups |-> <<>>]

\* re.match('^([^:]+):(\d+)-(\d+)$', text): no match, or the three groups
match_tig_region(s) ==
    IF \A i \in 1..Len(s) : s[i] # ":" THEN NoMatch
    ELSE LET k == CHOOSE i \in 1..Len(s) : s[i] = ":" /\ \A j \in 1..(i - 1) : s[j] # ":"
             rest == SubSeq(s, k + 1, Len(s))
             dash == {j \in 1..Len(rest) : rest[j] = "-"}
         IN IF k = 1 \/ Cardinality(dash) # 1 THEN NoMatch
            ELSE LET j == CHOOSE x \in dash : TRUE
                     g2 == SubSeq(rest, 1, j - 1)
                     g3 == SubSeq(rest, j + 1, Len(rest))
                 IN IF IsDigits(g2) /\ IsDigits(g3)
                    THEN [matched |-> TRUE, groups |-> <<SubSeq(s, 1, k - 1), g2, g3>>]
                    ELSE NoMatch

\* The loop over df.iterrows(): the index labels to remove, the index as the
\* lookups leave it, and whether a TIG_REGION was refused
RECURSIVE filter_scan(_, _, _, _)
filter_scan(d, i, tree, rm) ==
    IF i > Len(d.rows) THEN [err |-> NoErr, rm |-> rm, tree |-> tree]
    ELSE LET match_obj == match_tig_region(d.rows[i][cTIG_REGION])
         IN IF ~match_obj.matched
            THEN [err |-> "RuntimeError: Unrecognized TIG_REGION format", rm |-> rm, tree |-> tree]
            ELSE LET g == default_get(tree, match_obj.groups[1])
                     hits == overlap(g.value, int(match_obj.groups[2]) - 1,
                                     int(match_obj.groups[3]))
                 IN filter_scan(d, i + 1, g.map,
                                IF hits # {} THEN rm \cup {d.index[i]} ELSE rm)

\* df.loc[mask]: the rows where the mask holds, index and order kept
RECURSIVE loc_mask(_, _, _)
loc_mask(d, mask, i) ==
    IF i > Len(d.rows) THEN [index |-> <<>>, cols |-> d.cols, rows |-> <<>>]
    ELSE LET t == loc_mask(d, mask, i + 1)
         IN IF mask[i]
            THEN [index |-> <<d.index[i]>> \o t.index, cols |-> d.cols,
                  rows |-> <<d.rows[i]>> \o t.rows]
            ELSE t

\* An optional index: None, or a defaultdict of interval trees
NoneTree == [is_none |-> TRUE, map |-> <<>>]
SomeTree(m) == [is_none |-> FALSE, map |-> m]

\* A frame without columns or rows, standing for "nothing returned"
NoFrame == [index |-> <<>>, cols |-> <<>>, rows |-> <<>>]

filter_by_tig_tree(d, tig_filter_tree) ==
    IF tig_filter_tree.is_none THEN [err |-> NoErr, out |-> d, tree |-> tig_filter_tree.map]
    ELSE LET s == filter_scan(d, 1, tig_filter_tree.map, {})
         IN IF s.err # NoErr THEN [err |-> s.err, out |-> NoFrame, tree |-> s.tree]
            ELSE IF s.rm = {} THEN [err |-> NoErr, out |-> d, tree |-> s.tree]
            ELSE [err |-> NoErr, tree |-> s.tree,
                  out |-> loc_mask(d, [i \in 1..Len(d.rows) |-> d.index[i] \notin s.rm], 1)]

Contigs == {<<"tigA">>, <<"tigB">>}

NumTexts == {<<"1">>, <<"3">>, <<"1", "0">>}

TigRegionTexts ==
    {c \o <<":">> \o a \o <<"-">> \o b : c \in Contigs, a \in NumTexts, b \in NumTexts}
    \cup {<<"tigA", ":", "1">>, <<"tigA", "-", "1", "-", "3">>}

FilterIntervals ==
    {[chrom |-> <<"tigA">>, pos |-> 0, end |-> 2], [chrom |-> <<"tigA">>, pos |-> 2, end |-> 3],
     [chrom |-> <<"tigB">>, pos |-> 0, end |-> 1], [chrom |-> <<"tigA">>, pos |-> 9, end |-> 10]}

FilterTrees ==
    {NoneTree} \cup {SomeTree(build_map_tree(SetToSeq(S), EmptyMap).map) :
                        S \in {T \in SUBSET FilterIntervals : Cardinality(T) <= MaxExclusions}}

FilterFrames ==
    UNION {{[index |-> ix, cols |-> <<cTIG_REGION>>,
             rows |-> [i \in 1..n |-> RowOf(<<cTIG_REGION>>, <<tr[i]>>)]] :
               ix \in [1..n -> {0, 1}], tr \in [1..n -> TigRegionTexts]} :
           n \in 0..MaxFilterRows}

FilterStart ==
    /\ f_pc = "call"
    /\ f_df \in FilterFrames
    /\ f_tree \in FilterTrees
    /\ f_out = NoFrame
    /\ f_err = NoErr

FilterByTigTree ==
    /\ f_pc = "call"
    /\ LET r == filter_by_tig_tree(f_df, f_tree)
       IN /\ f_out' = r.out
          /\ f_err' = r.err
    /\ f_pc' = "done"
    /\ UNCHANGED <<f_df, f_tree>>
    /\ UNCHANGED <<gt_vars, m_vars>>

(***************************************************************************)
(* DataFrame operations                                                    *)
(***************************************************************************)
HasCol(d, c) == c \in Range(d.cols)

\* del df[c], for a column that exists
DropCol(d, c) ==
    LET keep == SelectSeq(d.cols, LAMBDA x : x # c)
    IN [index |-> d.index, cols |-> keep,
        rows |-> [i \in 1..Len(d.rows) |-> [k \in Range(keep) |-> d.rows[i][k]]]]

\* df[c] = vals: the column is replaced where it stands, or added last
SetCol(d, c, vals) ==
    LET cols2 == IF HasCol(d, c) THEN d.cols ELSE Append(d.cols, c)
    IN [index |-> d.index, cols |-> cols2,
        rows |-> [i \in 1..Len(d.rows) |->
                     [k \in Range(cols2) |-> IF k = c THEN vals[i] ELSE d.rows[i][k]]]]

\* df.columns = [f(val) for val in df.columns]
RenameCols(d, f(_)) ==
    LET cols2 == [j \in 1..Len(d.cols) |-> f(d.cols[j])]
    IN [index |-> d.index, cols |-> cols2,
        rows |-> [i \in 1..Len(d.rows) |->
                     [k \in Range(cols2) |->
                         d.rows[i][d.cols[CHOOSE j \in 1..Len(d.cols) : cols2[j] = k]]]]]

\* A step's outcome: the error raised, if any, and the frame
Ok(d) == [err |-> NoErr, df |-> d]

\* del(df[c]) after the steps before it: KeyError for a column that is not there
del(st, c) ==
    IF st.err # NoErr THEN st
    ELSE IF HasCol(st.df, c) THEN Ok(DropCol(st.df, c))
    ELSE [err |-> "KeyError:del", df |-> st.df]

\* df[c] = df[c].apply(f) after the steps before it
apply_col(st, c, f(_)) ==
    IF st.err # NoErr THEN st
    ELSE IF HasCol(st.df, c)
    THEN Ok(SetCol(st.df, c, [i \in 1..Len(st.df.rows) |-> f(st.df.rows[i][c])]))
    ELSE [err |-> "KeyError:column", df |-> st.df]

\* df[c] = numpy.nan after the steps before it
set_nan(st, c) ==
    IF st.err # NoErr THEN st
    ELSE Ok(SetCol(st.df, c, [i \in 1..Len(st.df.rows) |-> NaN]))

(***************************************************************************)
(* val_per_hap                                                             *)
(***************************************************************************)
\* tuple(zip(row['HAP'].split(';'), row['HAP_VARIANTS'].split(';')))
hap_id_pairs(row) == zip(split(row[cHAP], ";"), split(row[cHAP_VARIANTS], ";"))

\* df_dict = {'h1': df_h1, 'h2': df_h2}
df_dict(t1, t2) == (h1 :> t1) @@ (h2 :> t2)

\* df_dict[val[0]].loc[val[1], col_name]
loc_value(dict, val, col_name) ==
    IF val[1] \notin DOMAIN dict THEN [err |-> "KeyError:val_per_hap", v |-> <<>>]
    ELSE IF val[2] \notin DOMAIN dict[val[1]] THEN [err |-> "KeyError:val_per_hap", v |-> <<>>]
    ELSE IF col_name \notin DOMAIN dict[val[1]][val[2]]
    THEN [err |-> "KeyError:val_per_hap", v |-> <<>>]
    ELSE [err |-> NoErr, v |-> dict[val[1]][val[2]][col_name]]

\* The values of a record's pairs from the first on; the first failing lookup ends it
RECURSIVE pair_values(_, _, _, _)
pair_values(dict, val_list, i, col_name) ==
    IF i > Len(val_list) THEN [err |-> NoErr, vs |-> <<>>]
    ELSE LET x == loc_value(dict, val_list[i], col_name)
         IN IF x.err # NoErr THEN [err |-> x.err, vs |-> <<>>]
            ELSE LET t == pair_values(dict, val_list, i + 1, col_name)
                 IN IF t.err # NoErr THEN t
                    ELSE [err |-> NoErr, vs |-> <<x.v>> \o t.vs]

\* The same, a pair whose lookup fails left out
RECURSIVE pair_values_skipping(_, _, _, _)
pair_values_skipping(dict, val_list, i, col_name) ==
    IF i > Len(val_list) THEN [err |-> NoErr, vs |-> <<>>]
    ELSE LET x == loc_value(dict, val_list[i], col_name)
             t == pair_values_skipping(dict, val_list, i + 1, col_name)
         IN IF x.err # NoErr THEN t
            ELSE [err |-> NoErr, vs |-> <<x.v>> \o t.vs]

\* One value per record of d, from the first record on
RECURSIVE per_record(_, _, _, _, _, _)
per_record(d, i, dict, col_name, delim, skipping) ==
    IF i > Len(d.rows) THEN [err |-> NoErr, vals |-> <<>>]
    ELSE IF ~(cHAP \in DOMAIN d.rows[i] /\ cHAP_VARIANTS \in DOMAIN d.rows[i])
    THEN [err |-> "KeyError:column", vals |-> <<>>]
    ELSE LET x == IF skipping
                  THEN pair_values_skipping(dict, hap_id_pairs(d.rows[i]), 1, col_name)
                  ELSE pair_values(dict, hap_id_pairs(d.rows[i]), 1, col_name)
         IN IF x.err # NoErr THEN [err |-> x.err, vals |-> <<>>]
            ELSE LET t == per_record(d, i + 1, dict, col_name, delim, skipping)
                 IN IF t.err # NoErr THEN t
                    ELSE [err |-> NoErr, vals |-> <<join(delim, x.vs)>> \o t.vals]

\* val_per_hap with a pair left out when its identifier is not in the table
val_per_hap_skip_missing(d, t1, t2, col_name, delim) ==
    per_record(d, 1, df_dict(t1, t2), col_name, delim, TRUE)

\* val_per_hap with the identifiers looked up in the other haplotype's table
val_per_hap_swapped_tables(d, t1, t2, col_name, delim) ==
    per_record(d, 1, df_dict(t2, t1), col_name, delim, FALSE)

\* The Series val_per_hap returns, keyed like d, or the error it raises
val_per_hap(d, t1, t2, col_name, delim) ==
    per_record(d, 1, df_dict(t1, t2), col_name, delim, FALSE)

\* df[c] = val_per_hap(df, df_h1, df_h2, c) after the steps before it
set_per_hap(st, t1, t2, c) ==
    IF st.err # NoErr THEN st
    ELSE LET x == val_per_hap(st.df, t1, t2, c, ";")
         IN IF x.err # NoErr THEN [err |-> x.err, df |-> st.df]
            ELSE Ok(SetCol(st.df, c, x.vals))

(***************************************************************************)
(* merge_haplotypes: its steps                                             *)
(***************************************************************************)
cDISC_CLASS == <<"DISC_CLASS">>
cQUERY_STRAND == <<"QUERY_STRAND">>
cCI == <<"CI">>
cALIGN_INDEX == <<"ALIGN_INDEX">>
cCLUSTER_MATCH == <<"CLUSTER_MATCH">>
cCALL_SOURCE == <<"CALL_SOURCE">>
cRGN_REF_INNER == <<"RGN_REF_INNER">>
cRGN_TIG_INNER == <<"RGN_TIG_INNER">>
cRGN_REF_DISC == <<"RGN_REF_DISC">>
cRGN_TIG_DISC == <<"RGN_TIG_DISC">>
cFLAG_ID == <<"FLAG_ID">>
cFLAG_TYPE == <<"FLAG_TYPE">>
cHAP_SAMPLES == <<"HAP_", "SAMPLES">>
cMERGE_SAMPLES == <<"MERGE_", "SAMPLES">>
cMERGE_VARIANTS == <<"MERGE_", "VARIANTS">>

INV == <<"INV">>

\* np.any(df['SVTYPE'] == 'INV')
any_inv(d) == \E i \in 1..Len(d.rows) : d.rows[i][cSVTYPE] = INV

\* np.all(df['SVTYPE'] == 'INV')
all_inv(d) == \A i \in 1..Len(d.rows) : d.rows[i][cSVTYPE] = INV

\* df.set_index('ID', inplace=True, drop=False)
set_index_id(d) ==
    [index |-> [i \in 1..Len(d.rows) |-> d.rows[i][cID]], cols |-> d.cols, rows |-> d.rows]

\* re.sub('^MERGE_', 'HAP_', val)
sub_merge_prefix(name) ==
    IF Len(name) >= 1 /\ name[1] = "MERGE_" THEN <<"HAP_">> \o Tail(name) ELSE name

\* 'HAP' if val == 'HAP_SAMPLES' else val
samples_to_hap(name) == IF name = cHAP_SAMPLES THEN cHAP ELSE name

\* Restructure columns
restructure(d) ==
    LET a == IF HasCol(d, cHAP) THEN DropCol(d, cHAP) ELSE d
        b == IF HasCol(a, cDISC_CLASS) THEN DropCol(a, cDISC_CLASS) ELSE a
        c == RenameCols(b, sub_merge_prefix)
        e == del(del(del(del(Ok(c), <<"HAP_", "SRC">>), <<"HAP_", "SRC_ID">>),
                     <<"HAP_", "AC">>), <<"HAP_", "AF">>)
    IN IF e.err # NoErr THEN e ELSE Ok(RenameCols(e.df, samples_to_hap))

\* ';'.join(val.split(','))
comma_to_semicolon(val) == join(";", split(val, ","))

\* A column rewritten only if it is there
apply_if_present(st, c, f(_)) ==
    IF st.err = NoErr /\ ~HasCol(st.df, c) THEN st ELSE apply_col(st, c, f)

\* Change , to ; from merger
normalize_delimiters(d) ==
    apply_if_present(apply_if_present(apply_if_present(apply_if_present(
        apply_col(apply_col(Ok(d), cHAP, comma_to_semicolon),
                  cHAP_VARIANTS, comma_to_semicolon),
        <<"HAP_", "RO">>, comma_to_semicolon),
        <<"HAP_", "OFFSET">>, comma_to_semicolon),
        <<"HAP_", "SZRO">>, comma_to_semicolon),
        <<"HAP_", "OFFSZ">>, comma_to_semicolon)

\* read_csv_chrom, set_index('ID'), fillna('NA') of CLUSTER_MATCH, then astype(str)
load_source(file) ==
    [id \in DOMAIN file |->
        [c \in DOMAIN file[id] |->
            IF file[id][c] = NaN
            THEN (IF c = cCLUSTER_MATCH THEN <<"NA">> ELSE <<"nan">>)
            ELSE file[id][c]]]

\* The inversion columns dropped
del_inv_columns(st) ==
    del(del(del(del(st, cRGN_REF_DISC), cRGN_TIG_DISC), cFLAG_ID), cFLAG_TYPE)

\* The fields pulled from the two haplotypes, then the inversion columns
reconcile(d, t1, t2, inv) ==
    LET a == set_per_hap(set_per_hap(set_per_hap(set_per_hap(set_per_hap(set_per_hap(
                 Ok(d), t1, t2, cTIG_REGION), t1, t2, cQUERY_STRAND), t1, t2, cCI),
                 t1, t2, cALIGN_INDEX), t1, t2, cCLUSTER_MATCH), t1, t2, cCALL_SOURCE)
    IN IF inv = "True"
       THEN set_per_hap(set_per_hap(del_inv_columns(a), t1, t2, cRGN_REF_INNER),
                        t1, t2, cRGN_TIG_INNER)
       ELSE a

\* df.apply(get_gt, hap=hap, map_tree=map_tree, axis=1) from record i on: the
\* calls, and the index as the calls leave it
RECURSIVE apply_get_gt(_, _, _, _)
apply_get_gt(d, i, hap, map_tree) ==
    IF i > Len(d.rows) THEN [vals |-> <<>>, map_tree |-> map_tree]
    ELSE LET g == get_gt(d.rows[i], hap, map_tree)
             t == apply_get_gt(d, i + 1, hap, g.map_tree)
         IN [vals |-> << <<g.ret>> >> \o t.vals, map_tree |-> t.map_tree]

\* The same calls, each splitting HAP at ','
RECURSIVE apply_get_gt_split_comma(_, _, _, _)
apply_get_gt_split_comma(d, i, hap, map_tree) ==
    IF i > Len(d.rows) THEN [vals |-> <<>>, map_tree |-> map_tree]
    ELSE LET g == get_gt_split_comma(d.rows[i], hap, map_tree)
             t == apply_get_gt_split_comma(d, i + 1, hap, g.map_tree)
         IN [vals |-> << <<g.ret>> >> \o t.vals, map_tree |-> t.map_tree]

\* '{}|{}'.format(row['GT_H1'], row['GT_H2'])
format_gt(g1, g2) == g1 \o <<"|">> \o g2

\* np.any(df['GT'].apply(lambda val: val == '0|0'))
any_double_absence(d) == \E i \in 1..Len(d.rows) : d.rows[i][cGT] = <<"0", "|", "0">>

\* The genotype step with HAP split at ',' and without the 0|0 check
genotype_unchecked(d, t1, t2) ==
    LET g1 == apply_get_gt_split_comma(d, 1, h1, t1)
        g2 == apply_get_gt_split_comma(d, 1, h2, t2)
        a == SetCol(SetCol(d, cGT_H1, g1.vals), cGT_H2, g2.vals)
        b == SetCol(a, cGT, [i \in 1..Len(a.rows) |->
                                format_gt(a.rows[i][cGT_H1], a.rows[i][cGT_H2])])
    IN [err |-> NoErr, df |-> DropCol(DropCol(b, cGT_H1), cGT_H2),
        t1 |-> g1.map_tree, t2 |-> g2.map_tree, calls |-> 2 * Len(d.rows)]

\* Get genotypes setting no-call for non-mappable regions
genotype(d, t1, t2) ==
    LET g1 == apply_get_gt(d, 1, h1, t1)
        g2 == apply_get_gt(d, 1, h2, t2)
        a == SetCol(SetCol(d, cGT_H1, g1.vals), cGT_H2, g2.vals)
        b == SetCol(a, cGT, [i \in 1..Len(a.rows) |->
                                format_gt(a.rows[i][cGT_H1], a.rows[i][cGT_H2])])
    IN IF any_double_absence(b)
       THEN [err |-> "RuntimeError:ProgramBug", df |-> b,
             t1 |-> g1.map_tree, t2 |-> g2.map_tree, calls |-> 2 * Len(d.rows)]
       ELSE [err |-> NoErr, df |-> DropCol(DropCol(b, cGT_H1), cGT_H2),
             t1 |-> g1.map_tree, t2 |-> g2.map_tree, calls |-> 2 * Len(d.rows)]

\* The empty call set: the fields and GT set to numpy.nan
fill_missing_without_gt(d, inv) ==
    LET a == set_nan(set_nan(set_nan(set_nan(set_nan(set_nan(Ok(d),
                 cTIG_REGION), cQUERY_STRAND), cCI), cALIGN_INDEX),
                 cCLUSTER_MATCH), cCALL_SOURCE)
    IN IF inv = "True"
       THEN set_nan(set_nan(del_inv_columns(a), cRGN_REF_INNER), cRGN_TIG_INNER)
       ELSE a

fill_missing(d, inv) ==
    LET a == set_nan(set_nan(set_nan(set_nan(set_nan(set_nan(Ok(d),
                 cTIG_REGION), cQUERY_STRAND), cCI), cALIGN_INDEX),
                 cCLUSTER_MATCH), cCALL_SOURCE)
        b == IF inv = "True"
             THEN set_nan(set_nan(del_inv_columns(a), cRGN_REF_INNER), cRGN_TIG_INNER)
             ELSE a
    IN set_nan(b, cGT)

(***************************************************************************)
(* merge_haplotypes: its inputs                                            *)
(***************************************************************************)
hx == <<"hx">>
v1 == <<"v1">>
v9 == <<"v9">>
VarIds == {v1, v9}

SrcCols == {cTIG_REGION, cQUERY_STRAND, cCI, cALIGN_INDEX, cCLUSTER_MATCH,
            cCALL_SOURCE, cRGN_REF_INNER, cRGN_TIG_INNER}

\* A cell of a haplotype call-set file: different for each haplotype, variant
\* and column; CLUSTER_MATCH is empty for v1
SrcCell(hap, id, c) ==
    IF c = cCI
    THEN <<"0", ",", (IF hap = h1 THEN (IF id = v1 THEN "5" ELSE "7")
                      ELSE (IF id = v1 THEN "1" ELSE "3"))>>
    ELSE IF c = cCLUSTER_MATCH /\ id = v1 THEN NaN
    ELSE c \o <<"@">> \o hap \o <<".">> \o id

SourceFile(hap, ids) == [id \in ids |-> [c \in SrcCols |-> SrcCell(hap, id, c)]]

\* The two call-set files: both hold v1 and v9, or h1 holds only v1 and h2 only v9
SourceFilePairs ==
    {<<SourceFile(h1, {v1, v9}), SourceFile(h2, {v1, v9})>>,
     <<SourceFile(h1, {v1}), SourceFile(h2, {v9})>>}

Region(c, b, e) == [chrom |-> c, pos |-> b, end |-> e]

\* A callable-region file: one region, which holds the records' [2, 4) or not
CallableFiles ==
    {<<Region(<<"chr1">>, 1, 5)>>, <<Region(<<"chr1">>, 3, 5)>>}

MergePrefixed(name) == <<"MERGE_", name>>

BaseSchema ==
    <<cID, cCHROM, cPOS, cEND, cSVTYPE, cMERGE_SAMPLES, cMERGE_VARIANTS,
      MergePrefixed("SRC"), MergePrefixed("SRC_ID"), MergePrefixed("AC"),
      MergePrefixed("AF")>>

\* What the external merge may return as columns: the merge's own, with columns
\* carried from the inputs or with the inversion columns
Schemas ==
    {BaseSchema \o <<cHAP, cDISC_CLASS, MergePrefixed("RO"), cTIG_REGION>>,
     BaseSchema \o <<cRGN_REF_DISC, cRGN_TIG_DISC, cFLAG_ID, cFLAG_TYPE, cRGN_REF_INNER>>}

MergeIds == <<"m1", "m2", "m3", "m4">>

MergeLabelLists == LabelLists \cup {<<hx>>}

\* A record of the merge: its samples and their variants ','-joined
MergeRow(schema, i, svtype, labels, ids) ==
    [c \in Range(schema) |->
        CASE c = cID -> <<MergeIds[i]>>
          [] c = cCHROM -> <<"chr1">>
          [] c = cPOS -> 2
          [] c = cEND -> 4
          [] c = cSVTYPE -> svtype
          [] c = cMERGE_SAMPLES -> join(",", labels)
          [] c = cMERGE_VARIANTS -> join(",", ids)
          [] c = MergePrefixed("RO") -> <<"1", ",", "1">>
          [] OTHER -> <<"x">>]

\* What a record of the merge may hold: a type, its samples, a variant for each
MergeChoices ==
    UNION {{[svtype |-> t, labels |-> l, ids |-> ids] : ids \in [1..Len(l) -> VarIds]} :
           t \in {INV, <<"INS">>}, l \in MergeLabelLists}

MergeOutputs ==
    UNION {UNION {{[index |-> <<>>, cols |-> schema,
                    rows |-> [i \in 1..n |-> MergeRow(schema, i, ch[i].svtype,
                                                      ch[i].labels, ch[i].ids)]] :
                     ch \in [1..n -> MergeChoices]} :
                  n \in 0..MaxRows} :
           schema \in Schemas}

(***************************************************************************)
(* merge_haplotypes: the call                                              *)
(***************************************************************************)
MergeStart ==
    /\ pc = "set_is_inv"
    /\ is_inv \in {"None", "True", "False"}
    /\ \E files \in SourceFilePairs : h1_file = files[1] /\ h2_file = files[2]
    /\ h1_callable \in CallableFiles
    /\ h2_callable \in CallableFiles
    /\ merged = NoFrame /\ df = NoFrame /\ df_h1 = <<>> /\ df_h2 = <<>>
    /\ map_tree_h1 = <<>> /\ map_tree_h2 = <<>>
    /\ ret = NoFrame /\ err = NoErr /\ merge_invoked = FALSE
    /\ loaded = {} /\ gt_calls = 0

m_inputs == <<is_inv, h1_file, h2_file, h1_callable, h2_callable>>

\* Set is_inv: df is read before it is assigned
SetIsInv ==
    /\ pc = "set_is_inv"
    /\ IF is_inv = "None"
       THEN pc' = "failed" /\ err' = "UnboundLocalError"
       ELSE pc' = "merge" /\ err' = err
    /\ UNCHANGED <<m_inputs, merged, df, df_h1, df_h2, map_tree_h1, map_tree_h2,
                   ret, merge_invoked, loaded, gt_calls>>
    /\ UNCHANGED <<gt_vars, f_vars>>

\* Merge: what analib.svmerge.merge_variants returns, indexed by ID
Merge ==
    /\ pc = "merge"
    /\ \E out \in MergeOutputs :
           /\ merged' = set_index_id(out)
           /\ df' = set_index_id(out)
    /\ merge_invoked' = TRUE
    /\ pc' = "check_inv"
    /\ UNCHANGED <<m_inputs, df_h1, df_h2, map_tree_h1, map_tree_h2,
                   ret, err, loaded, gt_calls>>
    /\ UNCHANGED <<gt_vars, f_vars>>

\* Check is_inv
CheckInv ==
    /\ pc = "check_inv"
    /\ IF is_inv = "True" /\ ~all_inv(df)
       THEN pc' = "failed" /\ err' = "RuntimeError:InvCount"
       ELSE pc' = "restructure" /\ err' = err
    /\ UNCHANGED <<m_inputs, merged, df, df_h1, df_h2, map_tree_h1, map_tree_h2,
                   ret, merge_invoked, loaded, gt_calls>>
    /\ UNCHANGED <<gt_vars, f_vars>>

\* Restructure columns, then the branch on df.shape[0] > 0
Restructure ==
    /\ pc = "restructure"
    /\ LET r == restructure(df)
       IN IF r.err # NoErr
          THEN pc' = "failed" /\ err' = r.err /\ df' = df
          ELSE /\ df' = r.df
               /\ err' = err
               /\ pc' = IF Len(r.df.rows) > 0 THEN "normalize" ELSE "fill_missing"
    /\ UNCHANGED <<m_inputs, merged, df_h1, df_h2, map_tree_h1, map_tree_h2,
                   ret, merge_invoked, loaded, gt_calls>>
    /\ UNCHANGED <<gt_vars, f_vars>>

\* Change , to ; from merger
Normalize ==
    /\ pc = "normalize"
    /\ LET r == normalize_delimiters(df)
       IN IF r.err # NoErr
          THEN pc' = "failed" /\ err' = r.err /\ df' = df
          ELSE pc' = "add_hap_columns" /\ err' = err /\ df' = r.df
    /\ UNCHANGED <<m_inputs, merged, df_h1, df_h2, map_tree_h1, map_tree_h2,
                   ret, merge_invoked, loaded, gt_calls>>
    /\ UNCHANGED <<gt_vars, f_vars>>

\* Add h1 and h2 to columns: the two call-set files read, the val_per_hap calls
\* and the inversion columns
AddHapColumns ==
    /\ pc = "add_hap_columns"
    /\ df_h1' = load_source(h1_file)
    /\ df_h2' = load_source(h2_file)
    /\ loaded' = loaded \cup {"h1_file", "h2_file"}
    /\ LET r == reconcile(df, load_source(h1_file), load_source(h2_file), is_inv)
       IN IF r.err # NoErr
          THEN pc' = "failed" /\ err' = r.err /\ df' = df
          ELSE pc' = "genotype" /\ err' = err /\ df' = r.df
    /\ UNCHANGED <<m_inputs, merged, map_tree_h1, map_tree_h2,
                   ret, merge_invoked, gt_calls>>
    /\ UNCHANGED <<gt_vars, f_vars>>

\* Load mapped regions, get genotypes, check for 0|0, and return
Genotype ==
    /\ pc = "genotype"
    /\ loaded' = loaded \cup {"h1_callable", "h2_callable"}
    /\ LET a == build_map_tree(h1_callable, EmptyMap)
           b == build_map_tree(h2_callable, EmptyMap)
       IN IF ~a.ok \/ ~b.ok
          THEN /\ pc' = "failed" /\ err' = "ValueError"
               /\ map_tree_h1' = a.map
               /\ map_tree_h2' = IF a.ok THEN b.map ELSE EmptyMap
               /\ UNCHANGED <<df, ret, gt_calls>>
          ELSE LET r == genotype(df, a.map, b.map)
               IN /\ map_tree_h1' = r.t1
                  /\ map_tree_h2' = r.t2
                  /\ gt_calls' = gt_calls + r.calls
                  /\ df' = r.df
                  /\ IF r.err # NoErr
                     THEN pc' = "failed" /\ err' = r.err /\ ret' = ret
                     ELSE pc' = "returned" /\ err' = err /\ ret' = r.df
    /\ UNCHANGED <<m_inputs, merged, df_h1, df_h2, merge_invoked>>
    /\ UNCHANGED <<gt_vars, f_vars>>

\* The empty call set, and return
FillMissing ==
    /\ pc = "fill_missing"
    /\ LET r == fill_missing(df, is_inv)
       IN IF r.err # NoErr
          THEN pc' = "failed" /\ err' = r.err /\ df' = df /\ ret' = ret
          ELSE pc' = "returned" /\ err' = err /\ df' = r.df /\ ret' = r.df
    /\ UNCHANGED <<m_inputs, merged, df_h1, df_h2, map_tree_h1, map_tree_h2,
                   merge_invoked, loaded, gt_calls>>
    /\ UNCHANGED <<gt_vars, f_vars>>

(***************************************************************************)
(* Specifications                                                          *)
(***************************************************************************)
GtIdle ==
    /\ gt_pc = "idle" /\ gt_row = <<>> /\ gt_hap = <<>>
    /\ gt_tree0 = <<>> /\ gt_tree = <<>> /\ gt_ret = "None"

FilterIdle ==
    /\ f_pc = "idle" /\ f_df = NoFrame /\ f_tree = NoneTree
    /\ f_out = NoFrame /\ f_err = NoErr

MergeIdle ==
    /\ pc = "idle" /\ is_inv = "None"
    /\ h1_file = <<>> /\ h2_file = <<>> /\ h1_callable = <<>> /\ h2_callable = <<>>
    /\ merged = NoFrame /\ df = NoFrame /\ df_h1 = <<>> /\ df_h2 = <<>>
    /\ map_tree_h1 = <<>> /\ map_tree_h2 = <<>>
    /\ ret = NoFrame /\ err = NoErr /\ merge_invoked = FALSE
    /\ loaded = {} /\ gt_calls = 0

\* merge_haplotypes
Init == MergeStart /\ GtIdle /\ FilterIdle
Next ==
    \/ SetIsInv \/ Merge \/ CheckInv \/ Restructure \/ Normalize
    \/ AddHapColumns \/ Genotype \/ FillMissing
Spec == Init /\ [][Next]_vars

\* get_gt alone
InitGT == GtStart /\ FilterIdle /\ MergeIdle
NextGT == GetGt
SpecGT == InitGT /\ [][NextGT]_vars

\* filter_by_tig_tree alone
InitFilter == FilterStart /\ GtIdle /\ MergeIdle
NextFilter == FilterByTigTree
SpecFilter == InitFilter /\ [][NextFilter]_vars

(***************************************************************************)
(* Claims about get_gt                                                     *)
(***************************************************************************)
\* What the specification's ternary function gives for the call made
TernaryGt(row, hap, map_tree) ==
    IF \E i \in 1..Len(split(row[cHAP], ";")) : split(row[cHAP], ";")[i] = hap
    THEN "1"
    ELSE IF \E iv \in stored(map_tree, row[cCHROM]) :
                iv.begin <= row[cPOS] /\ iv.end >= row[cEND]
    THEN "0"
    ELSE "."

\* C1: for every record with POS <= END, every haplotype and every index,
\* get_gt returns '1' if the haplotype is a label of HAP, otherwise '0' exactly
\* when one stored interval of the record's chromosome has begin <= POS and
\* end >= END, otherwise '.'.
C1_GtIsTernary ==
    gt_pc = "done" => gt_ret = TernaryGt(gt_row, gt_hap, gt_tree0)

\* C9: a genotype query leaves the mappability index as it was: the same
\* chromosome keys, the same intervals under each.
C9_IndexUnchanged ==
    gt_pc = "done" => gt_tree = gt_tree0

(***************************************************************************)
(* Claims about filter_by_tig_tree                                         *)
(***************************************************************************)
\* Whether the record's own [start-1, end) shares a position with an exclusion
\* interval of its contig
OwnRegionExcluded(row, map) ==
    LET m == match_tig_region(row[cTIG_REGION])
        lo == int(m.groups[2]) - 1
        hi == int(m.groups[3])
    IN \E iv \in stored(map, m.groups[1]) :
           \E x \in lo..(hi - 1) : iv.begin <= x /\ x < iv.end

\* The positions of the records kept, in order
RECURSIVE KeptPositions(_, _, _)
KeptPositions(d, map, i) ==
    IF i > Len(d.rows) THEN <<>>
    ELSE (IF OwnRegionExcluded(d.rows[i], map) THEN <<>> ELSE <<i>>)
         \o KeptPositions(d, map, i + 1)

\* C4: with an exclusion index, a record is removed if and only if its own
\* [start-1, end) overlaps an exclusion interval of its contig; every other
\* record is kept with its values, its index label and its relative order.
C4_FilterExclusive ==
    (f_pc = "done" /\ ~f_tree.is_none /\ f_err = NoErr) =>
        LET keep == KeptPositions(f_df, f_tree.map, 1)
        IN /\ f_out.index = [k \in 1..Len(keep) |-> f_df.index[keep[k]]]
           /\ f_out.rows = [k \in 1..Len(keep) |-> f_df.rows[keep[k]]]
           /\ f_out.cols = f_df.cols

\* The same, for call sets whose index labels are all different
C4_UniqueIndexOnly ==
    (\A i, j \in 1..Len(f_df.index) : f_df.index[i] = f_df.index[j] => i = j)
        => C4_FilterExclusive

\* C1 for records with POS < END
C1_NonEmptyRangeOnly ==
    gt_row[cPOS] < gt_row[cEND] => C1_GtIsTernary

(***************************************************************************)
(* Claims about merge_haplotypes                                           *)
(***************************************************************************)
\* The labels and the variant identifiers the merge gave record i
MergedLabels(i) == split(merged.rows[i][cMERGE_SAMPLES], ",")
MergedIds(i) == split(merged.rows[i][cMERGE_VARIANTS], ",")

DoubleAbsence == <<"0", "|", "0">>

\* C2: no call set returned holds a record whose GT is "0|0"; whenever the calls
\* of a record assemble to "0|0", the call has failed with the 'Program bug'
\* error and returned nothing.
C2_NoDoubleAbsence ==
    /\ pc = "returned" =>
           \A i \in 1..Len(ret.rows) :
               cGT \in DOMAIN ret.rows[i] /\ ret.rows[i][cGT] # DoubleAbsence
    /\ \A i \in 1..Len(df.rows) :
           (cGT \in DOMAIN df.rows[i] /\ df.rows[i][cGT] = DoubleAbsence)
               => (pc = "failed" /\ err = "RuntimeError:ProgramBug")

\* Reached: a call set returned whose two records each lack one haplotype, in
\* regions both indexes hold
C2_Witness ==
    /\ pc = "returned" /\ Len(ret.rows) = 2
    /\ ret.rows[1][cGT] = <<"1", "|", "0">>
    /\ ret.rows[2][cGT] = <<"0", "|", "1">>

\* The fields val_per_hap fills
ReconciledCols ==
    {cTIG_REGION, cQUERY_STRAND, cCI, cALIGN_INDEX, cCLUSTER_MATCH, cCALL_SOURCE}
    \cup (IF is_inv = "True" THEN {cRGN_REF_INNER, cRGN_TIG_INNER} ELSE {})

\* The source table of a label
TableOf(label) == IF label = h1 THEN df_h1 ELSE df_h2

\* Every label of record i is h1 or h2 and has, at its place, an identifier of
\* its own table
Sourced(i) ==
    LET labels == split(df.rows[i][cHAP], ";")
        ids == split(df.rows[i][cHAP_VARIANTS], ";")
    IN /\ Len(ids) = Len(labels)
       /\ \A k \in 1..Len(labels) :
              labels[k] \in {h1, h2} /\ ids[k] \in DOMAIN TableOf(labels[k])

\* The segments the specification asks of record i for column c: one per label
\* of HAP, each from the table of its label under the identifier at its place
Segments(i, c) ==
    LET labels == split(df.rows[i][cHAP], ";")
        ids == split(df.rows[i][cHAP_VARIANTS], ";")
    IN [k \in 1..Len(labels) |-> TableOf(labels[k])[ids[k]][c]]

C5_AutoDetectReachesMerge ==
    is_inv = "None" => ~(pc = "failed" /\ ~merge_invoked)

\* Record i names, at the place of an h1 or h2 label, an identifier that the
\* file of that haplotype does not hold
DanglingAt(i) ==
    \E k \in 1..Min(Len(MergedLabels(i)), Len(MergedIds(i))) :
        \/ MergedLabels(i)[k] = h1 /\ MergedIds(i)[k] \notin DOMAIN h1_file
        \/ MergedLabels(i)[k] = h2 /\ MergedIds(i)[k] \notin DOMAIN h2_file

Dangling == \E i \in 1..Len(merged.rows) : DanglingAt(i)

\* C6: if a merged record names an identifier absent from the source table of the
\* label at its place, no call set is returned and the genotype step is never
\* reached; once the source tables are loaded the call has failed with the
\* lookup error of val_per_hap, no reconciled value written.
C6_DanglingPropagates ==
    (merge_invoked /\ Dangling) =>
        /\ pc \notin {"genotype", "returned"}
        /\ loaded # {} =>
               /\ pc = "failed" /\ err = "KeyError:val_per_hap"
               /\ \A i \in 1..Len(df.rows) : cCI \notin DOMAIN df.rows[i]

\* Reached: two records, the first sound, the second dangling, and the lookup
\* error raised
C6_Witness ==
    /\ pc = "failed" /\ err = "KeyError:val_per_hap"
    /\ Len(merged.rows) = 2 /\ ~DanglingAt(1) /\ DanglingAt(2)
    /\ hx \notin Range(MergedLabels(1)) /\ hx \notin Range(MergedLabels(2))

\* The columns the specification gives the returned call set, from the merge's
\* columns and the inversion mode
ExpectedCols(schema, inv) ==
    LET kept == {sub_merge_prefix(c) : c \in Range(schema) \ {cHAP, cDISC_CLASS}}
                    \ {<<"HAP_", "SRC">>, <<"HAP_", "SRC_ID">>, <<"HAP_", "AC">>,
                       <<"HAP_", "AF">>}
        named == (kept \ {cHAP_SAMPLES})
                     \cup (IF cHAP_SAMPLES \in kept THEN {cHAP} ELSE {})
        filled == named \cup {cTIG_REGION, cQUERY_STRAND, cCI, cALIGN_INDEX,
                              cCLUSTER_MATCH, cCALL_SOURCE, cGT}
    IN IF inv = "True"
       THEN (filled \ {cRGN_REF_DISC, cRGN_TIG_DISC, cFLAG_ID, cFLAG_TYPE})
                \cup {cRGN_REF_INNER, cRGN_TIG_INNER}
       ELSE filled

\* C7: an empty merge gives a returned table of zero rows whose columns are those
\* of the non-empty path for the same merge columns and inversion mode (both are
\* ExpectedCols), without GT_H1 or GT_H2; no source or callable-region table is
\* loaded and no genotype call is made.
C7_EmptyKeepsSchema ==
    pc = "returned" =>
        /\ Range(ret.cols) = ExpectedCols(merged.cols, is_inv)
        /\ Len(ret.cols) = Cardinality(Range(ret.cols))
        /\ cGT_H1 \notin Range(ret.cols) /\ cGT_H2 \notin Range(ret.cols)
        /\ Len(merged.rows) = 0 =>
               /\ Len(ret.rows) = 0 /\ ret.index = <<>>
               /\ loaded = {} /\ gt_calls = 0
               /\ df_h1 = <<>> /\ df_h2 = <<>>
               /\ map_tree_h1 = <<>> /\ map_tree_h2 = <<>>

\* Reached: the empty call set returned in inversion mode
C7_Witness ==
    /\ pc = "returned" /\ Len(merged.rows) = 0 /\ is_inv = "True"
    /\ cRGN_TIG_INNER \in Range(ret.cols) /\ cGT \in Range(ret.cols)

SomeNotInv == \E i \in 1..Len(merged.rows) : merged.rows[i][cSVTYPE] # INV

\* C8: in inversion mode the call fails with the count-mismatch error if and only
\* if the merge returned a record whose SVTYPE is not 'INV', with the merge's
\* table as it was returned; with is_inv false the check never fails.
C8_InvCheck ==
    /\ err = "RuntimeError:InvCount" =>
           /\ pc = "failed" /\ is_inv = "True" /\ SomeNotInv
           /\ df = merged
    /\ (is_inv = "True" /\ merge_invoked /\ pc # "check_inv" /\ SomeNotInv) =>
           (pc = "failed" /\ err = "RuntimeError:InvCount")
    /\ is_inv = "False" => err # "RuntimeError:InvCount"

\* Reached: inversion mode, an inversion beside another type, and the failure
C8_Witness ==
    /\ err = "RuntimeError:InvCount" /\ Len(merged.rows) = 2
    /\ merged.rows[1][cSVTYPE] = INV /\ merged.rows[2][cSVTYPE] # INV

\* C10: in a non-empty returned call set the h1 side of GT is '1' exactly when
\* h1 is among the labels of the merge's ','-joined samples, and the h2 side
\* likewise; when every merge record carries h1 or h2, the "0|0" failure does
\* not happen.
C10_CalledSideIffSample ==
    /\ (pc = "returned" /\ Len(ret.rows) > 0) =>
           /\ ret.index = merged.index
           /\ \A i \in 1..Len(ret.rows) :
                  LET gt == ret.rows[i][cGT]
                  IN /\ Len(gt) = 3 /\ gt[2] = "|"
                     /\ gt[1] = "1" <=> h1 \in Range(MergedLabels(i))
                     /\ gt[3] = "1" <=> h2 \in Range(MergedLabels(i))
    /\ (\A i \in 1..Len(merged.rows) :
            h1 \in Range(MergedLabels(i)) \/ h2 \in Range(MergedLabels(i)))
           => err # "RuntimeError:ProgramBug"

\* Reached: a record the merge gave "h1,h2", returned as "1|1" although both
\* indexes hold its region
C10_Witness ==
    /\ pc = "returned" /\ Len(ret.rows) > 0
    /\ merged.rows[1][cMERGE_SAMPLES] = <<"h1", ",", "h2">>
    /\ ret.rows[1][cGT] = <<"1", "|", "1">>
    /\ \E iv \in stored(map_tree_h1, <<"chr1">>) : iv.begin <= 2 /\ iv.end >= 4
    /\ \E iv \in stored(map_tree_h2, <<"chr1">>) : iv.begin <= 2 /\ iv.end >= 4

====
